---- MODULE Spec2Model ----
(***************************************************************************)
(* Model of the Uniden UBC125XLT command layer: the UnidenUBC125XLT class  *)
(* as it appears in uniden.py, uniden_cin_read.py, uniden_debug.py,        *)
(* uniden_channel_test.py and uniden_device.py (the same class with        *)
(* configuration drift), the reply parser of uniden_channel_test.py, the   *)
(* main routines and rediscover_commands, the USB bulk endpoints the class *)
(* talks to, and the scanner behind them.                                  *)
(*                                                                         *)
(* Bytes and characters are their integer codes.  A byte waiting on the IN *)
(* endpoint is a pair <<owner, byte>>: owner is the number of the command  *)
(* the scanner emitted it for (0: data that was there before the session). *)
(* The owner is bookkeeping of the model; the code never sees it.          *)
(***************************************************************************)
EXTENDS Integers, Sequences, FiniteSets, TLC

\* ------------------------------------------------------------------ bounds

\* Calls of initialize, clear_buffer, send_command and close in one run.
MaxCalls == 3
\* Bytes waiting on the IN endpoint when the object is constructed.
MaxStale == 1

\* --------------------------------------------------------------- constants

TIMEOUT == 5000
DRAIN_TIMEOUT == 500
CONTINUATION_TIMEOUT == 1000
CONTINUATION_SIZE == 256
CONFIGURATION == 1
INTERFACE == 1
CR == 13
COMMA == 44
REPLACEMENT == 65533

Variants == {"uniden", "cin_read", "debug", "channel_test", "device"}

\* Whether send_command reads the reply itself.  In uniden_device.py it
\* only writes, and the reply is read by a separate read_response().
SendReads(v) == v # "device"

\* The read size of send_command's primary read (of read_response's read in
\* uniden_device.py).
ReadSize(v) ==
  CASE v = "uniden" -> 64
    [] v = "cin_read" -> 128
    [] v = "debug" -> 128
    [] v = "channel_test" -> 256
    [] v = "device" -> 64

\* time.sleep between the write and the primary read, in ms (0: no sleep).
SettleDelay(v) ==
  CASE v = "uniden" -> 0
    [] v = "cin_read" -> 100
    [] v = "debug" -> 100
    [] v = "channel_test" -> 300
    [] v = "device" -> 0

\* The errors= argument of the primary read's decode.
DecodePolicy(v) ==
  CASE v = "uniden" -> "strict"
    [] v = "cin_read" -> "strict"
    [] v = "debug" -> "replace"
    [] v = "channel_test" -> "replace"
    [] v = "device" -> "ignore"

\* Whether send_command has the trailing-comma continuation read.
ContinuationEnabled(v) == v = "channel_test"

\* Whether the class has clear_buffer and initialize ends by calling it.
HasDrain(v) == v \in {"debug", "channel_test"}

\* The read size of clear_buffer's reads.
DrainReadSize(v) == IF v = "debug" THEN 128 ELSE 256

\* ----------------------------------------------------------------- helpers

Min(a, b) == IF a < b THEN a ELSE b

Take(s, n) == SubSeq(s, 1, Min(n, Len(s)))

Drop(s, n) == SubSeq(s, Min(n, Len(s)) + 1, Len(s))

\* What the scanner answers to one command in the model: nothing, ",A",
\* ",,", ", " and a byte outside ASCII followed by a space.
Replies ==
  {<<>>, <<COMMA, 65>>, <<COMMA, COMMA>>, <<COMMA, 32>>, <<200, 32>>}

\* Data left on the endpoint by an earlier session: a run of 'A'.
StaleData == {[i \in 1..k |-> 65] : k \in 0..MaxStale}

\* Command strings passed to send_command: " M" and a non-ASCII one.
Cmds == {<<32, 77>>, <<233>>}

Tag(n, bs) == [i \in 1..Len(bs) |-> <<n, bs[i]>>]

Codes(t) == [i \in 1..Len(t) |-> t[i][2]]

Owners(t) == {t[i][1] : i \in 1..Len(t)}

\* str.strip(): the characters Python counts as whitespace.
IsSpace(c) == c \in {9, 10, 11, 12, 13, 28, 29, 30, 31, 32, 133, 160}

StripLo(cs) ==
  IF \A i \in 1..Len(cs) : IsSpace(cs[i]) THEN Len(cs) + 1
  ELSE CHOOSE i \in 1..Len(cs) :
         /\ ~IsSpace(cs[i])
         /\ \A j \in 1..(i - 1) : IsSpace(cs[j])

StripHi(cs) ==
  IF \A i \in 1..Len(cs) : IsSpace(cs[i]) THEN Len(cs)
  ELSE CHOOSE i \in 1..Len(cs) :
         /\ ~IsSpace(cs[i])
         /\ \A j \in (i + 1)..Len(cs) : IsSpace(cs[j])

\* str.strip() of a plain string.
Strip(cs) == SubSeq(cs, StripLo(cs), StripHi(cs))

\* Mutant of StripT: the decoded reply is returned as it is.
StripTNone(t) == t

\* str.strip() of a decoded reply (characters with their owners).
StripT(t) == SubSeq(t, StripLo(Codes(t)), StripHi(Codes(t)))

\* Mutant of IsAscii: the test of an encode('latin-1').
IsLatin1(cs) == \A i \in 1..Len(cs) : cs[i] < 256

\* Whether str.encode('ascii') and bytes.decode('ascii') accept cs.
IsAscii(cs) == \A i \in 1..Len(cs) : cs[i] < 128

\* str.endswith(',')
EndsWithComma(t) == Len(t) > 0 /\ t[Len(t)][2] = COMMA

\* bytes.decode('ascii', errors=policy) of a buffer read from the endpoint.
Decode(t, policy) ==
  IF policy = "strict"
  THEN [ok |-> IsAscii(Codes(t)), text |-> t]
  ELSE IF policy = "ignore"
  THEN [ok |-> TRUE, text |-> SelectSeq(t, LAMBDA b : b[2] < 128)]
  ELSE [ok |-> TRUE,
        text |-> [i \in 1..Len(t) |->
                    IF t[i][2] < 128 THEN t[i] ELSE <<t[i][1], REPLACEMENT>>]]

NoExc == [type |-> "none", cause |-> "none"]

\* usb.core.USBError as raised by the transport: it carries the cause only.
USBError(cause) == [type |-> "USBError", cause |-> cause]

\* One call on the transport: its name, its numeric argument (the read size,
\* the interface, the sleep in ms), its timeout and, for a write, the frame.
Op(name, arg, timeout) ==
  [op |-> name, arg |-> arg, timeout |-> timeout, frame |-> <<>>]

WriteOp(frame) ==
  [op |-> "write", arg |-> 0, timeout |-> TIMEOUT, frame |-> frame]

\* device.read(ENDPOINT_IN, size, timeout): data when bytes are waiting, a
\* timeout when none are, an I/O error when the scanner is gone.
Read(buf, pres, size) ==
  IF ~pres
  THEN [ok |-> FALSE, cause |-> "NoDevice", data |-> <<>>, rest |-> buf]
  ELSE IF buf = <<>>
  THEN [ok |-> FALSE, cause |-> "Timeout", data |-> <<>>, rest |-> buf]
  ELSE [ok |-> TRUE, cause |-> "none", data |-> Take(buf, size),
        rest |-> Drop(buf, size)]

\* ------------------------------------------------------------------- state

VARIABLES
  variant,       \* which script's class this object is
  present,       \* the scanner is attached to the bus
  kernelActive,  \* a kernel driver is bound to the interface
  inbuf,         \* bytes waiting on the IN endpoint, oldest first
  claimed,       \* the interface is claimed (usb.util.claim_interface)
  initOk,        \* initialize() has returned normally
  closed,        \* close() has been called
  initDrained,   \* the initialize() that returned ran clear_buffer()
  calls,         \* number of calls of any method so far
  last,          \* the last call: its transport operations and its outcome
  prev,          \* summary of the call before the last
  quiet,         \* the scanner did nothing since the last call returned
  pure,          \* a function applied outside a session: argument and result
  run            \* a routine run step by step: its position and its locals

vars == <<variant, present, kernelActive, inbuf, claimed, initOk, closed,
          initDrained, calls, last, prev, quiet, pure, run>>

\* The session state of the design: the class keeps no such field, it is
\* what the calls made so far amount to.
SessionState ==
  IF closed THEN "Closed" ELSE IF initOk THEN "Ready" ELSE "Uninitialized"

NoCall ==
  [op |-> "none", cmd |-> <<>>, n |-> 0, pre |-> "Uninitialized", ops |-> <<>>,
   outcome |-> "none", exc |-> NoExc, text |-> <<>>, primary |-> <<>>,
   extra |-> <<>>, readCause |-> "notreached", contCause |-> "notreached",
   consumed |-> 0, endedOn |-> "none", log |-> "none", quiet |-> FALSE]

\* No function is being applied outside a session.
NoPure == [fn |-> "none"]

\* No routine is being run step by step.
NoRun == [fn |-> "none"]

\* What the next call's record keeps of a call: which method, how it ended,
\* and the transport call that raised.
Summary(c) ==
  [op |-> c.op, outcome |-> c.outcome, pre |-> c.pre, consumed |-> c.consumed,
   cause |-> IF c.outcome = "raise" THEN c.exc.cause ELSE c.endedOn,
   failedAt |-> IF c.outcome = "raise" /\ Len(c.ops) > 0
                THEN c.ops[Len(c.ops)].op ELSE "none"]

Init ==
  /\ variant \in Variants
  /\ present = TRUE
  /\ kernelActive \in BOOLEAN
  /\ inbuf \in {Tag(0, bs) : bs \in StaleData}
  /\ claimed = FALSE
  /\ initOk = FALSE
  /\ closed = FALSE
  /\ initDrained = FALSE
  /\ calls = 0
  /\ last = NoCall
  /\ prev = Summary(NoCall)
  /\ quiet = FALSE
  /\ pure = NoPure
  /\ run = NoRun

\* ------------------------------------------------------------ clear_buffer

\* Mutant of DrainLoop: an if where the code has while True, so that one
\* successful read ends the drain.
DrainOnce(buf, pres, size, consumed, ops) ==
  LET rd == Read(buf, pres, size)
  IN [inbuf |-> rd.rest, consumed |-> consumed + Len(rd.data),
      ops |-> Append(ops, Op("read", size, DRAIN_TIMEOUT)),
      endedOn |-> rd.cause]

\* The while True loop of clear_buffer: read until a read raises USBError.
RECURSIVE DrainLoop(_, _, _, _, _)
DrainLoop(buf, pres, size, consumed, ops) ==
  LET rd == Read(buf, pres, size)
      ops1 == Append(ops, Op("read", size, DRAIN_TIMEOUT))
  IN IF rd.ok
     THEN DrainLoop(rd.rest, pres, size, consumed + Len(rd.data), ops1)
     ELSE [inbuf |-> rd.rest, consumed |-> consumed, ops |-> ops1,
           endedOn |-> rd.cause]

\* What clear_buffer does with the USBError that ended the loop: both
\* classes catch it and return; uniden_debug.py logs an error when it is
\* not a timeout.
DrainHandler(v, cause) ==
  [outcome |-> "return",
   log |-> IF v = "debug" /\ cause # "Timeout" THEN "error" ELSE "info"]

clear_buffer(v, buf, pres) ==
  LET d == DrainLoop(buf, pres, DrainReadSize(v), 0, <<>>)
      h == DrainHandler(v, d.endedOn)
  IN [inbuf |-> d.inbuf, consumed |-> d.consumed, ops |-> d.ops,
      endedOn |-> d.endedOn, outcome |-> h.outcome, log |-> h.log,
      exc |-> IF h.outcome = "raise" THEN USBError(d.endedOn) ELSE NoExc]

ClearBuffer ==
  /\ HasDrain(variant)
  /\ calls < MaxCalls
  /\ \E d \in {clear_buffer(variant, inbuf, present)} :
       /\ inbuf' = d.inbuf
       /\ last' = [NoCall EXCEPT !.op = "clear_buffer", !.n = calls + 1,
                     !.pre = SessionState,
                     !.ops = d.ops, !.outcome = d.outcome, !.exc = d.exc,
                     !.consumed = d.consumed, !.endedOn = d.endedOn,
                     !.log = d.log, !.quiet = quiet]
  /\ prev' = Summary(last)
  /\ calls' = calls + 1
  /\ quiet' = TRUE
  /\ UNCHANGED <<pure, run, variant, present, kernelActive, claimed, initOk, closed,
                 initDrained>>

\* -------------------------------------------------------------- initialize

\* initialize(): detach the kernel driver if one is active, set the
\* configuration, claim the interface and, in the classes that have it,
\* clear the buffer.  fail names the transport call that raises, if any.
\* "unplug": the scanner is unplugged once the interface is claimed.
initialize(v, buf, pres, kactive, fail) ==
  LET probe == <<Op("is_kernel_driver_active", INTERFACE, 0)>>
      detach == IF kactive THEN <<Op("detach_kernel_driver", INTERFACE, 0)>>
                ELSE <<>>
      setc == <<Op("set_configuration", CONFIGURATION, 0)>>
      claim == <<Op("claim_interface", INTERFACE, 0)>>
      pres1 == pres /\ fail # "unplug"
      base == [inbuf |-> buf, kernelActive |-> kactive, claimed |-> FALSE,
               present |-> pres,
               ops |-> probe, outcome |-> "raise", exc |-> USBError("NoDevice"),
               consumed |-> 0, endedOn |-> "none", log |-> "none",
               drained |-> FALSE]
  IN IF ~pres THEN base
     ELSE IF fail = "set_configuration"
     THEN [base EXCEPT !.kernelActive = FALSE, !.exc = USBError("IOError"),
                       !.ops = probe \o detach \o setc]
     ELSE IF fail = "claim_interface"
     THEN [base EXCEPT !.kernelActive = FALSE, !.exc = USBError("IOError"),
                       !.ops = probe \o detach \o setc \o claim]
     ELSE IF ~HasDrain(v)
     THEN [base EXCEPT !.kernelActive = FALSE, !.claimed = TRUE,
                       !.present = pres1,
                       !.outcome = "return", !.exc = NoExc,
                       !.ops = probe \o detach \o setc \o claim]
     ELSE LET d == clear_buffer(v, buf, pres1)
          IN [inbuf |-> d.inbuf, kernelActive |-> FALSE, claimed |-> TRUE,
              present |-> pres1,
              ops |-> probe \o detach \o setc \o claim \o d.ops,
              outcome |-> d.outcome, exc |-> d.exc, consumed |-> d.consumed,
              endedOn |-> d.endedOn, log |-> d.log, drained |-> TRUE]

Initialize ==
  /\ calls < MaxCalls
  /\ \E fail \in IF present
                 THEN {"none", "set_configuration", "claim_interface", "unplug"}
                 ELSE {"none"} :
     \E r \in {initialize(variant, inbuf, present, kernelActive, fail)} :
       /\ inbuf' = r.inbuf
       /\ present' = r.present
       /\ kernelActive' = r.kernelActive
       /\ claimed' = (claimed \/ r.claimed)
       /\ initOk' = (initOk \/ r.outcome = "return")
       /\ initDrained' = IF r.outcome = "return" THEN r.drained
                         ELSE initDrained
       /\ last' = [NoCall EXCEPT !.op = "initialize", !.n = calls + 1,
                     !.pre = SessionState,
                     !.ops = r.ops, !.outcome = r.outcome, !.exc = r.exc,
                     !.consumed = r.consumed, !.endedOn = r.endedOn,
                     !.log = r.log, !.quiet = quiet]
  /\ prev' = Summary(last)
  /\ calls' = calls + 1
  /\ quiet' = TRUE
  /\ UNCHANGED <<pure, run, variant, closed>>

\* ------------------------------------------------------------------- close

\* close(): release the interface and dispose of the device's resources.
close ==
  [ops |-> <<Op("release_interface", INTERFACE, 0),
             Op("dispose_resources", 0, 0)>>,
   claimed |-> FALSE, outcome |-> "return"]

Close ==
  /\ calls < MaxCalls
  /\ \E r \in {close} :
       /\ claimed' = r.claimed
       /\ last' = [NoCall EXCEPT !.op = "close", !.n = calls + 1,
                     !.pre = SessionState,
                     !.ops = r.ops, !.outcome = r.outcome, !.quiet = quiet]
  /\ closed' = TRUE
  /\ prev' = Summary(last)
  /\ calls' = calls + 1
  /\ quiet' = TRUE
  /\ UNCHANGED <<pure, run, variant, present, kernelActive, inbuf, initOk, initDrained>>

\* ------------------------------------------------------------ send_command

\* Mutant of Sleep: the delay is passed in ms to a sleep that takes seconds.
SleepSeconds(v) ==
  IF SettleDelay(v) = 0 THEN <<>>
  ELSE <<Op("sleep", 1000 * SettleDelay(v), 0)>>

\* time.sleep(...) between the write and the primary read.
Sleep(v) ==
  IF SettleDelay(v) = 0 THEN <<>> ELSE <<Op("sleep", SettleDelay(v), 0)>>

\* Of the bytes the scanner has still to emit, at most k reach the endpoint
\* before the next read, none once the scanner is gone.
Arrive(buf, pending, pres, k) ==
  LET a == IF pres THEN Min(k, Len(pending)) ELSE 0
  IN [inbuf |-> buf \o Take(pending, a), pending |-> Drop(pending, a)]

\* Mutant of Continuation: the continuation read is issued whatever the
\* primary text ends in.
ContinuationUnconditional(v, r, text, pres, k) ==
  IF ~ContinuationEnabled(v)
  THEN [r EXCEPT !.outcome = "return", !.text = text, !.primary = text]
  ELSE LET ar == Arrive(r.inbuf, r.pending, pres, k)
           rd == Read(ar.inbuf, pres, CONTINUATION_SIZE)
           op == Op("read", CONTINUATION_SIZE, CONTINUATION_TIMEOUT)
           extra == IF rd.ok THEN StripT(Decode(rd.data, "replace").text)
                    ELSE <<>>
       IN [r EXCEPT !.outcome = "return", !.primary = text,
                    !.text = IF rd.ok THEN text \o extra ELSE text,
                    !.extra = extra, !.contCause = rd.cause,
                    !.inbuf = rd.rest, !.pending = ar.pending,
                    !.present = pres, !.ops = Append(r.ops, op)]

\* Mutant of Continuation: the USBError of the continuation read is not
\* caught.
ContinuationPropagates(v, r, text, pres, k) ==
  IF ~(ContinuationEnabled(v) /\ EndsWithComma(text))
  THEN [r EXCEPT !.outcome = "return", !.text = text, !.primary = text]
  ELSE LET ar == Arrive(r.inbuf, r.pending, pres, k)
           rd == Read(ar.inbuf, pres, CONTINUATION_SIZE)
           op == Op("read", CONTINUATION_SIZE, CONTINUATION_TIMEOUT)
           extra == IF rd.ok THEN StripT(Decode(rd.data, "replace").text)
                    ELSE <<>>
       IN [r EXCEPT !.outcome = IF rd.ok THEN "return" ELSE "raise",
                    !.exc = IF rd.ok THEN NoExc ELSE USBError(rd.cause),
                    !.primary = text,
                    !.text = IF rd.ok THEN text \o extra ELSE <<>>,
                    !.extra = extra, !.contCause = rd.cause,
                    !.inbuf = rd.rest, !.pending = ar.pending,
                    !.present = pres, !.ops = Append(r.ops, op)]

\* The continuation of uniden_channel_test.py: when the stripped primary
\* text ends in ',', one more read with a 1000 ms timeout, its stripped
\* text appended; a USBError of that read is caught and the primary text
\* is returned.  r carries the state after the primary read.
Continuation(v, r, text, pres, k) ==
  IF ~(ContinuationEnabled(v) /\ EndsWithComma(text))
  THEN [r EXCEPT !.outcome = "return", !.text = text, !.primary = text]
  ELSE LET ar == Arrive(r.inbuf, r.pending, pres, k)
           rd == Read(ar.inbuf, pres, CONTINUATION_SIZE)
           op == Op("read", CONTINUATION_SIZE, CONTINUATION_TIMEOUT)
           extra == IF rd.ok THEN StripT(Decode(rd.data, "replace").text)
                    ELSE <<>>
       IN [r EXCEPT !.outcome = "return", !.primary = text,
                    !.text = IF rd.ok THEN text \o extra ELSE text,
                    !.extra = extra, !.contCause = rd.cause,
                    !.inbuf = rd.rest, !.pending = ar.pending,
                    !.present = pres, !.ops = Append(r.ops, op)]

\* Mutant of FullCmd: the terminator is left out.
FullCmdUnterminated(v, cmd) == IF v = "device" THEN cmd ELSE Strip(cmd)

\* The text of the frame: cmd.strip() + '\r', and command + '\r' with no
\* strip in uniden_device.py.
FullCmd(v, cmd) ==
  IF v = "device" THEN cmd \o <<CR>> ELSE Strip(cmd) \o <<CR>>

\* Mutant of PrimaryReadFailure: the USBError is caught and an empty response
\* returned.
PrimaryReadFailureSwallowed(r, cause) == [r EXCEPT !.outcome = "return"]

\* Mutant of PrimaryReadFailure: the frame is written again before the
\* USBError is passed on.
PrimaryReadFailureRewrites(r, cause) ==
  [r EXCEPT !.exc = USBError(cause), !.ops = Append(r.ops, r.ops[1])]

\* The USBError of the primary read is not caught in send_command: it
\* reaches the caller as it is.
PrimaryReadFailure(r, cause) == [r EXCEPT !.exc = USBError(cause)]

\* send_command(cmd) as call number n.  wres is what the write does when the
\* scanner is attached, reply what the scanner answers, k1 and k2 how many of
\* the reply's bytes reach the endpoint before the primary and before the
\* continuation read, detach the point at which the scanner is unplugged, if
\* any.
send_command(v, cmd, n, buf, pres, wres, reply, k1, k2, detach) ==
  LET full_cmd == FullCmd(v, cmd)
      base == [inbuf |-> buf, pending |-> <<>>, present |-> pres,
               ops |-> <<>>, outcome |-> "raise", exc |-> NoExc,
               text |-> <<>>, primary |-> <<>>, extra |-> <<>>,
               readCause |-> "notreached", contCause |-> "notreached"]
      wop == <<WriteOp(full_cmd)>>
  IN IF ~IsAscii(full_cmd)
     THEN [base EXCEPT !.exc = [type |-> "UnicodeEncodeError", cause |-> "encode"]]
     ELSE IF ~pres
     THEN [base EXCEPT !.ops = wop, !.exc = USBError("NoDevice")]
     ELSE IF wres # "ok"
     THEN [base EXCEPT !.ops = wop, !.exc = USBError(wres)]
     ELSE IF ~SendReads(v)
     THEN [base EXCEPT !.ops = wop, !.outcome = "return",
                       !.pending = Tag(n, reply)]
     ELSE
       LET pres1 == detach # "beforeRead"
           ar == Arrive(buf, Tag(n, reply), pres1, k1)
           rd == Read(ar.inbuf, pres1, ReadSize(v))
           r1 == [base EXCEPT !.inbuf = rd.rest, !.pending = ar.pending,
                              !.present = pres1, !.readCause = rd.cause,
                              !.ops = wop \o Sleep(v)
                                        \o <<Op("read", ReadSize(v), TIMEOUT)>>]
           dec == Decode(rd.data, DecodePolicy(v))
       IN IF ~rd.ok
          THEN PrimaryReadFailure(r1, rd.cause)
          ELSE IF ~dec.ok
          THEN [r1 EXCEPT !.exc = [type |-> "UnicodeDecodeError",
                                   cause |-> "decode"]]
          ELSE Continuation(v, r1, StripT(dec.text),
                            pres1 /\ detach # "beforeCont", k2)

\* The frame of cmd reaches the scanner: cmd encodes and the scanner is there.
Reaches(cmd, pres) == IsAscii(FullCmd(variant, cmd)) /\ pres

\* The bytes of the reply that had not reached the endpoint when the call
\* ended reach it afterwards, unless the scanner is gone.
SendCommand ==
  /\ calls < MaxCalls
  /\ \E cmd \in Cmds :
     \E wres \in IF Reaches(cmd, present) THEN {"ok", "Timeout"} ELSE {"ok"} :
     \E reply \in IF Reaches(cmd, present) /\ wres = "ok" THEN Replies
                  ELSE {<<>>} :
     \E detach \in IF Reaches(cmd, present) /\ wres = "ok" /\ SendReads(variant)
                   THEN {"never", "beforeRead", "beforeCont"} ELSE {"never"} :
     \E k1 \in IF detach # "beforeRead" /\ SendReads(variant)
               THEN 0..Len(reply) ELSE {0} :
     \E k2 \in IF ContinuationEnabled(variant) /\ detach = "never"
               THEN 0..(Len(reply) - k1) ELSE {0} :
     \E r \in {send_command(variant, cmd, calls + 1, inbuf, present,
                            wres, reply, k1, k2, detach)} :
       /\ inbuf' = IF r.present THEN r.inbuf \o r.pending ELSE r.inbuf
       /\ present' = r.present
       /\ last' = [NoCall EXCEPT !.op = "send", !.cmd = cmd, !.n = calls + 1,
                     !.pre = SessionState, !.ops = r.ops,
                     !.outcome = r.outcome, !.exc = r.exc, !.text = r.text,
                     !.primary = r.primary, !.extra = r.extra,
                     !.readCause = r.readCause, !.contCause = r.contCause,
                     !.quiet = quiet]
  /\ prev' = Summary(last)
  /\ calls' = calls + 1
  /\ quiet' = TRUE
  /\ UNCHANGED <<pure, run, variant, kernelActive, claimed, initOk, closed, initDrained>>

\* ----------------------------------------------------------- read_response

\* read_response() of uniden_device.py: one read of length bytes at TIMEOUT,
\* decoded with errors='ignore' and stripped.  A USBError of the read
\* reaches the caller.
read_response(v, buf, pres, length) ==
  LET rd == Read(buf, pres, length)
      base == [inbuf |-> rd.rest, ops |-> <<Op("read", length, TIMEOUT)>>,
               outcome |-> "raise", exc |-> NoExc, text |-> <<>>,
               readCause |-> rd.cause]
  IN IF ~rd.ok THEN [base EXCEPT !.exc = USBError(rd.cause)]
     ELSE [base EXCEPT !.outcome = "return",
                       !.text = StripT(Decode(rd.data, DecodePolicy(v)).text)]

ReadResponse ==
  /\ ~SendReads(variant)
  /\ calls < MaxCalls
  /\ \E r \in {read_response(variant, inbuf, present, ReadSize(variant))} :
       /\ inbuf' = r.inbuf
       /\ last' = [NoCall EXCEPT !.op = "read_response", !.n = calls + 1,
                     !.pre = SessionState, !.ops = r.ops,
                     !.outcome = r.outcome, !.exc = r.exc, !.text = r.text,
                     !.primary = r.text, !.readCause = r.readCause,
                     !.quiet = quiet]
  /\ prev' = Summary(last)
  /\ calls' = calls + 1
  /\ quiet' = TRUE
  /\ UNCHANGED <<pure, run, variant, present, kernelActive, claimed, initOk, closed,
                 initDrained>>

\* ------------------------------------------------------------- the scanner

\* The scanner emits a byte nobody asked for while no call is running.
DeviceEmit ==
  /\ present
  /\ Len(inbuf) < MaxStale
  /\ inbuf' = Append(inbuf, <<0, 65>>)
  /\ quiet' = FALSE
  /\ UNCHANGED <<pure, run, variant, present, kernelActive, claimed, initOk, closed,
                 initDrained, calls, last, prev>>

\* The scanner is unplugged while no call is running.
Unplug ==
  /\ present
  /\ present' = FALSE
  /\ quiet' = FALSE
  /\ UNCHANGED <<pure, run, variant, kernelActive, inbuf, claimed, initOk, closed,
                 initDrained, calls, last, prev>>

Next ==
  \/ Initialize
  \/ ClearBuffer
  \/ SendCommand
  \/ ReadResponse
  \/ Close
  \/ DeviceEmit
  \/ Unplug

Spec == Init /\ [][Next]_vars

\* ------------------------------------------------------------ reply parser

\* Fields of the responses handed to parse_glg_response.
MaxFields == 4

GLG == <<71, 76, 71>>

\* Fields a response is made of: "", "GLG", "XYZ", "01705000", "12", "1a",
\* "FM", " ", "422" and the placeholder of an undecodable byte.
Fields ==
  {<<>>, GLG, <<88, 89, 90>>, <<48, 49, 55, 48, 53, 48, 48, 48>>, <<49, 50>>,
   <<49, 97>>, <<70, 77>>, <<32>>, <<52, 50, 50>>, <<REPLACEMENT>>}

\* The reply of the scanner's manual: "GLG,01705000,FM,,0,,,,0,1,,422".
GlgExample ==
  <<71, 76, 71, 44, 48, 49, 55, 48, 53, 48, 48, 48, 44, 70, 77, 44, 44, 48,
    44, 44, 44, 44, 48, 44, 49, 44, 44, 52, 50, 50>>

RECURSIVE Join(_)
Join(fs) ==
  IF Len(fs) = 1 THEN fs[1] ELSE fs[1] \o <<COMMA>> \o Join(Tail(fs))

\* The response strings the parser is applied to: the example and the
\* strings of at most max fields.
Responses(max) ==
  {GlgExample} \cup
  UNION {{Join(fs) : fs \in [1..n -> Fields]} : n \in 1..max}

\* str.split(','): empty fields are kept.
RECURSIVE Split(_)
Split(s) ==
  IF \A i \in 1..Len(s) : s[i] # COMMA THEN <<s>>
  ELSE LET i == CHOOSE k \in 1..Len(s) :
                  s[k] = COMMA /\ \A j \in 1..(k - 1) : s[j] # COMMA
       IN <<SubSeq(s, 1, i - 1)>> \o Split(SubSeq(s, i + 1, Len(s)))

\* str.isdigit() of a decoded response's field: ASCII digits, at least one.
IsDigit(cs) == Len(cs) > 0 /\ \A i \in 1..Len(cs) : cs[i] \in 48..57

\* int(cs) of a string of ASCII digits.
RECURSIVE IntOf(_)
IntOf(cs) ==
  IF Len(cs) = 0 THEN 0
  ELSE 10 * IntOf(SubSeq(cs, 1, Len(cs) - 1)) + (cs[Len(cs)] - 48)

\* Python's None and a value that is there.
None == [some |-> FALSE, val |-> <<>>]

Some(x) == [some |-> TRUE, val |-> x]

\* Mutant of Frequency: the raw value is divided by 1000.
FrequencyInKHz(raw_freq) ==
  IF IsDigit(raw_freq) THEN Some(<<IntOf(raw_freq), 1000>>) ELSE None

\* int(raw_freq) / 10000.0 if raw_freq.isdigit() else None.  The quotient
\* n / 10000.0 is kept as the pair <<n, 10000>>.
Frequency(raw_freq) ==
  IF IsDigit(raw_freq) THEN Some(<<IntOf(raw_freq), 10000>>) ELSE None

\* Mutant of Channel: the last field, blank or not.
ChannelLastField(fields) == fields[Len(fields)]

\* next((f for f in reversed(fields) if f.strip()), ""): the last field that
\* is not empty once stripped.
Channel(fields) ==
  IF \A i \in 1..Len(fields) : Strip(fields[i]) = <<>> THEN <<>>
  ELSE fields[CHOOSE i \in 1..Len(fields) :
                /\ Strip(fields[i]) # <<>>
                /\ \A j \in (i + 1)..Len(fields) : Strip(fields[j]) = <<>>]

\* The empty dict.
EmptyResult ==
  [outcome |-> "return", exc |-> "none", empty |-> TRUE, command |-> <<>>,
   raw_frequency |-> <<>>, frequency_mhz |-> None, mode |-> None,
   channel |-> <<>>]

\* The body of the try block: fields[1] raises IndexError when the response
\* has one field only.
ParseFields(fields) ==
  IF Len(fields) < 2
  THEN [EmptyResult EXCEPT !.outcome = "raise", !.exc = "IndexError"]
  ELSE [EmptyResult EXCEPT
          !.empty = FALSE,
          !.command = fields[1],
          !.raw_frequency = fields[2],
          !.frequency_mhz = Frequency(fields[2]),
          !.mode = IF Len(fields) > 2 THEN Some(fields[3]) ELSE None,
          !.channel = Channel(fields)]

\* Mutant of ParseHandler: the exception is logged and raised again.
ParseHandlerReraise(r) == r

\* except Exception: log the error and return the empty dict.
ParseHandler(r) == IF r.outcome = "raise" THEN EmptyResult ELSE r

parse_glg_response(response) ==
  LET fields == Split(response)
  IN IF fields[1] # GLG THEN EmptyResult
     ELSE ParseHandler(ParseFields(fields))

\* The session variables while a function is applied outside a session.
NoSession ==
  /\ present = TRUE
  /\ kernelActive = FALSE
  /\ inbuf = <<>>
  /\ claimed = FALSE
  /\ initOk = FALSE
  /\ closed = FALSE
  /\ initDrained = FALSE
  /\ calls = 0
  /\ last = NoCall
  /\ prev = Summary(NoCall)
  /\ quiet = FALSE
  /\ run = NoRun

InitParser ==
  /\ variant = "channel_test"
  /\ NoSession
  /\ \E response \in Responses(MaxFields) :
       pure = [fn |-> "parse_glg_response", arg |-> response,
               fields |-> Split(response), done |-> FALSE,
               out |-> EmptyResult]

Parse ==
  /\ pure.fn = "parse_glg_response"
  /\ ~pure.done
  /\ pure' = [pure EXCEPT !.done = TRUE, !.out = parse_glg_response(pure.arg)]
  /\ UNCHANGED <<run, variant, present, kernelActive, inbuf, claimed, initOk,
                 closed, initDrained, calls, last, prev, quiet>>

NextParser == Parse

SpecParser == InitParser /\ [][NextParser]_vars

\* ------------------------------------------------------------------ framer

\* Length of the command strings the framer is applied to.
MaxCmdLen == 2

\* Characters of those strings: BEL, CR, space, 'M', no-break space, e-acute.
CmdChars == {7, CR, 32, 77, 160, 233}

\* The command strings of at most max characters.
CommandStrings(max) == UNION {[1..n -> CmdChars] : n \in 0..max}

\* The frame of C sent back with its terminator removed, as the class's
\* decode reads it: bytes(...).decode('ascii', errors=...).strip().
RoundTrip(v, C) ==
  LET frame == FullCmd(v, C)
      echo == Tag(0, SubSeq(frame, 1, Len(frame) - 1))
      dec == Decode(echo, DecodePolicy(v))
  IN [ok |-> IsAscii(frame) /\ dec.ok, text |-> Codes(StripT(dec.text))]

InitFramer ==
  /\ variant \in Variants
  /\ NoSession
  /\ \E C \in CommandStrings(MaxCmdLen) :
       pure = [fn |-> "send_command", arg |-> C, done |-> FALSE,
               ops |-> <<>>, outcome |-> "none", exc |-> NoExc,
               back |-> [ok |-> FALSE, text |-> <<>>]]

\* send_command(C) on an attached scanner with nothing waiting on the
\* endpoint; the scanner answers ",A" or nothing.
Frame ==
  /\ pure.fn = "send_command"
  /\ ~pure.done
  /\ \E wres \in IF IsAscii(FullCmd(variant, pure.arg))
                 THEN {"ok", "Timeout"} ELSE {"ok"} :
     \E reply \in IF IsAscii(FullCmd(variant, pure.arg)) /\ wres = "ok"
                  THEN {<<>>, <<COMMA, 65>>} ELSE {<<>>} :
     \E r \in {send_command(variant, pure.arg, 1, <<>>, TRUE, wres, reply,
                            Len(reply), 0, "never")} :
       pure' = [pure EXCEPT !.done = TRUE, !.ops = r.ops,
                            !.outcome = r.outcome, !.exc = r.exc,
                            !.back = RoundTrip(variant, pure.arg)]
  /\ UNCHANGED <<run, variant, present, kernelActive, inbuf, claimed, initOk,
                 closed, initDrained, calls, last, prev, quiet>>

NextFramer == Frame

SpecFramer == InitFramer /\ [][NextFramer]_vars

\* ------------------------------------------- clear_buffer, one read a step

\* Bytes the scanner emits while the buffer is being cleared: 'A' and a byte
\* outside ASCII.
EmittedBytes == {65, 200}

\* Mutant of DrainNext: the try is inside the loop, so that the loop reads
\* again after the USBError.
DrainNextRetries(pc, ok) ==
  IF pc = "read" /\ ok THEN "read"
  ELSE IF pc = "read" THEN "except"
  ELSE "read"

\* Where clear_buffer goes next: the while True loop reads again after a
\* read that returned data, the USBError of a read leaves the loop for the
\* except clause, and the function returns after it.
DrainNext(pc, ok) ==
  IF pc = "read" /\ ok THEN "read"
  ELSE IF pc = "read" THEN "except"
  ELSE "done"

InitDrain ==
  /\ variant \in {v \in Variants : HasDrain(v)}
  /\ present = TRUE
  /\ kernelActive = FALSE
  /\ inbuf \in {Tag(0, bs) : bs \in StaleData}
  /\ claimed = TRUE
  /\ initOk = FALSE
  /\ closed = FALSE
  /\ initDrained = FALSE
  /\ calls = 0
  /\ last = NoCall
  /\ prev = Summary(NoCall)
  /\ quiet = FALSE
  /\ pure = NoPure
  /\ run = [fn |-> "clear_buffer", pc |-> "read", issued |-> {}, taken |-> {},
            returned |-> <<>>, endedOn |-> "none", outcome |-> "none",
            log |-> "none", stopped |-> FALSE]

\* One device.read of the loop.
DrainRead ==
  /\ run.fn = "clear_buffer"
  /\ run.pc = "read"
  /\ \E rd \in {Read(inbuf, present, DrainReadSize(variant))} :
       /\ inbuf' = rd.rest
       /\ run' = [run EXCEPT
                    !.pc = DrainNext("read", rd.ok),
                    !.issued = @ \cup {Op("read", DrainReadSize(variant),
                                          DRAIN_TIMEOUT)},
                    !.taken = @ \cup {rd.data[i] : i \in 1..Len(rd.data)},
                    !.endedOn = rd.cause]
  /\ UNCHANGED <<pure, variant, present, kernelActive, claimed, initOk, closed,
                 initDrained, calls, last, prev, quiet>>

\* The except clause, after which clear_buffer returns None.
DrainExcept ==
  /\ run.fn = "clear_buffer"
  /\ run.pc = "except"
  /\ \E h \in {DrainHandler(variant, run.endedOn)} :
       run' = [run EXCEPT !.pc = DrainNext("except", FALSE),
                          !.outcome = h.outcome, !.log = h.log]
  /\ UNCHANGED <<pure, variant, present, kernelActive, inbuf, claimed, initOk,
                 closed, initDrained, calls, last, prev, quiet>>

\* The scanner emits a byte while the buffer is being cleared.
ScannerEmits ==
  /\ run.fn = "clear_buffer"
  /\ run.pc # "done"
  /\ present
  /\ ~run.stopped
  /\ Len(inbuf) < MaxStale
  /\ \E b \in EmittedBytes : inbuf' = Append(inbuf, <<0, b>>)
  /\ UNCHANGED <<pure, run, variant, present, kernelActive, claimed, initOk,
                 closed, initDrained, calls, last, prev, quiet>>

\* The scanner stops producing data for good.
ScannerStops ==
  /\ run.fn = "clear_buffer"
  /\ ~run.stopped
  /\ run' = [run EXCEPT !.stopped = TRUE]
  /\ UNCHANGED <<pure, variant, present, kernelActive, inbuf, claimed, initOk,
                 closed, initDrained, calls, last, prev, quiet>>

NextDrain ==
  \/ DrainRead
  \/ DrainExcept
  \/ ScannerEmits
  \/ ScannerStops
  \/ Unplug

\* clear_buffer is running code: a read returns within its 500 ms timeout
\* and the statement after it is executed.
SpecDrain ==
  InitDrain /\ [][NextDrain]_vars /\ WF_vars(DrainRead) /\ WF_vars(DrainExcept)

\* ------------------------------------------------------- the main routines

\* test_commands of rediscover_commands: "MDL", "VER", "VOL", "BAT", "STS",
\* "GLG", "KEY,PSE", "KEY,SCN", "RF 1", "PM 1", "SQ", "BLT".
TestCommands ==
  <<<<77, 68, 76>>, <<86, 69, 82>>, <<86, 79, 76>>, <<66, 65, 84>>,
    <<83, 84, 83>>, GLG, <<75, 69, 89, 44, 80, 83, 69>>,
    <<75, 69, 89, 44, 83, 67, 78>>, <<82, 70, 32, 49>>, <<80, 77, 32, 49>>,
    <<83, 81>>, <<66, 76, 84>>>>

\* f"PM {channel}" for the channels 1 to 10.
PM(channel) ==
  <<80, 77, 32>> \o (IF channel < 10 THEN <<48 + channel>> ELSE <<49, 48>>)

\* The commands a main routine sends after initialize: "GLG" in
\* uniden_channel_test.py, get_model() and get_channel_info(1..10) in
\* uniden.py, the test commands of rediscover_commands in uniden_debug.py.
MainCommands(v) ==
  CASE v = "channel_test" -> <<GLG>>
    [] v = "uniden" -> <<TestCommands[1]>> \o [c \in 1..10 |-> PM(c)]
    [] v = "debug" -> TestCommands

\* Mutant of RediscoverCatches: the handler takes timeouts only.
RediscoverCatchesTimeouts(exc) ==
  exc.type = "USBError" /\ exc.cause = "Timeout"

\* except usb.core.USBError in the loop of rediscover_commands.
RediscoverCatches(exc) == exc.type = "USBError"

\* Whether an exception of a send is handled before it reaches the try
\* statement of the main routine: only inside rediscover_commands.
CaughtInBody(v, exc) == v = "debug" /\ RediscoverCatches(exc)

\* Mutant of MainNext: close() is the last statement of the try block, with
\* no finally clause.
MainNextNoFinally(pc, raised) ==
  CASE pc = "initialize" -> IF raised THEN "except" ELSE "body"
    [] pc = "body" -> IF raised THEN "except" ELSE "finally"
    [] pc = "except" -> "done"
    [] pc = "finally" -> "done"

\* try: initialize and the sends; except Exception: log; finally: close.
MainNext(pc, raised) ==
  CASE pc = "initialize" -> IF raised THEN "except" ELSE "body"
    [] pc = "body" -> IF raised THEN "except" ELSE "finally"
    [] pc = "except" -> "finally"
    [] pc = "finally" -> "done"

\* The scanner object has been constructed: the device was found.
InitMain ==
  /\ variant \in {"uniden", "debug", "channel_test"}
  /\ present = TRUE
  /\ kernelActive \in BOOLEAN
  /\ inbuf \in {Tag(0, bs) : bs \in StaleData}
  /\ claimed = FALSE
  /\ initOk = FALSE
  /\ closed = FALSE
  /\ initDrained = FALSE
  /\ calls = 0
  /\ last = NoCall
  /\ prev = Summary(NoCall)
  /\ quiet = FALSE
  /\ pure = NoPure
  /\ run = [fn |-> "main", pc |-> "initialize", i |-> 0, exc |-> NoExc,
            isolated |-> 0, closes |-> 0, releases |-> 0, disposes |-> 0,
            claimedAtClose |-> FALSE, failedBeforeClaim |-> FALSE]

\* scanner.initialize()
MainInitialize ==
  /\ run.fn = "main"
  /\ run.pc = "initialize"
  /\ \E fail \in IF present
                 THEN {"none", "set_configuration", "claim_interface", "unplug"}
                 ELSE {"none"} :
     \E r \in {initialize(variant, inbuf, present, kernelActive, fail)} :
       /\ inbuf' = r.inbuf
       /\ present' = r.present
       /\ kernelActive' = r.kernelActive
       /\ claimed' = r.claimed
       /\ initOk' = (r.outcome = "return")
       /\ initDrained' = (r.outcome = "return" /\ r.drained)
       /\ run' = [run EXCEPT
                    !.pc = MainNext("initialize", r.outcome = "raise"),
                    !.exc = r.exc,
                    !.failedBeforeClaim = ~r.claimed]
  /\ quiet' = TRUE
  /\ UNCHANGED <<pure, variant, closed, calls, last, prev>>

\* The next send_command of the try block.
MainSend ==
  /\ run.fn = "main"
  /\ run.pc = "body"
  /\ \E cmd \in {MainCommands(variant)[run.i + 1]} :
     \E wres \in IF present THEN {"ok", "Timeout"} ELSE {"ok"} :
     \E reply \in IF present /\ wres = "ok" THEN Replies ELSE {<<>>} :
     \E detach \in IF present /\ wres = "ok"
                   THEN {"never", "beforeRead", "beforeCont"} ELSE {"never"} :
     \E k1 \in IF detach # "beforeRead" THEN 0..Len(reply) ELSE {0} :
     \E k2 \in IF ContinuationEnabled(variant) /\ detach = "never"
               THEN 0..(Len(reply) - k1) ELSE {0} :
     \E r \in {send_command(variant, cmd, run.i + 1, inbuf, present,
                            wres, reply, k1, k2, detach)} :
     \E escapes \in {r.outcome = "raise" /\ ~CaughtInBody(variant, r.exc)} :
       /\ inbuf' = IF r.present THEN r.inbuf \o r.pending ELSE r.inbuf
       /\ present' = r.present
       /\ run' = [run EXCEPT
                    !.i = @ + 1,
                    !.exc = IF escapes THEN r.exc ELSE run.exc,
                    !.isolated = IF r.outcome = "raise" /\ ~escapes
                                 THEN @ + 1 ELSE @,
                    !.pc = IF escapes THEN MainNext("body", TRUE)
                           ELSE IF run.i + 1 = Len(MainCommands(variant))
                           THEN MainNext("body", FALSE)
                           ELSE "body"]
  /\ quiet' = TRUE
  /\ UNCHANGED <<pure, variant, kernelActive, claimed, initOk, closed,
                 initDrained, calls, last, prev>>

\* except Exception as e: logging.error(...)
MainExcept ==
  /\ run.fn = "main"
  /\ run.pc = "except"
  /\ run' = [run EXCEPT !.pc = MainNext("except", FALSE)]
  /\ UNCHANGED <<pure, variant, present, kernelActive, inbuf, claimed, initOk,
                 closed, initDrained, calls, last, prev, quiet>>

\* finally: scanner.close()
MainFinally ==
  /\ run.fn = "main"
  /\ run.pc = "finally"
  /\ \E r \in {close} :
       /\ claimed' = r.claimed
       /\ run' = [run EXCEPT
                    !.pc = MainNext("finally", FALSE),
                    !.closes = @ + 1,
                    !.releases = @ + Cardinality(
                        {k \in 1..Len(r.ops) : r.ops[k].op = "release_interface"}),
                    !.disposes = @ + Cardinality(
                        {k \in 1..Len(r.ops) : r.ops[k].op = "dispose_resources"}),
                    !.claimedAtClose = claimed]
  /\ closed' = TRUE
  /\ quiet' = TRUE
  /\ UNCHANGED <<pure, variant, present, kernelActive, inbuf, initOk,
                 initDrained, calls, last, prev>>

NextMain ==
  \/ MainInitialize
  \/ MainSend
  \/ MainExcept
  \/ MainFinally
  \/ DeviceEmit
  \/ Unplug

\* The main routine is running code: every transport call returns within its
\* timeout and the next statement is executed.
SpecMain ==
  InitMain /\ [][NextMain]_vars
    /\ WF_vars(MainInitialize \/ MainSend \/ MainExcept \/ MainFinally)

\* ----------------------------------------------------- rediscover_commands

\* How many of the test commands the loop is run over.
MaxCommands == 3

\* The commands of the loop: the first MaxCommands test commands.
LoopCommands == SubSeq(TestCommands, 1, Min(MaxCommands, Len(TestCommands)))

\* responses[cmd] = response
ResponseEntry(text) == [kind |-> "text", text |-> text, cause |-> "none"]

\* responses[cmd] = f"USB Error: {e}"
ErrorEntry(exc) == [kind |-> "USB Error", text |-> <<>>, cause |-> exc.cause]

\* d[key] = value of a dict.
DictSet(d, key, value) ==
  [k \in DOMAIN d \cup {key} |-> IF k = key THEN value ELSE d[k]]

\* rediscover_commands(scanner) is called on an initialized scanner.
InitRediscover ==
  /\ variant = "debug"
  /\ present = TRUE
  /\ kernelActive = FALSE
  /\ inbuf \in {Tag(0, bs) : bs \in StaleData}
  /\ claimed = TRUE
  /\ initOk = TRUE
  /\ closed = FALSE
  /\ initDrained = TRUE
  /\ calls = 0
  /\ last = NoCall
  /\ prev = Summary(NoCall)
  /\ quiet = FALSE
  /\ pure = NoPure
  /\ run = [fn |-> "rediscover_commands", pc |-> "loop", i |-> 0,
            sent |-> <<>>, raisedAt |-> {}, exc |-> NoExc,
            responses |-> [c \in {} |-> ResponseEntry(<<>>)]]

\* One iteration of the for loop: send_command(cmd) and the entry made for
\* it; an exception the handler does not take leaves the function.
RediscoverSend ==
  /\ run.fn = "rediscover_commands"
  /\ run.pc = "loop"
  /\ run.i < Len(LoopCommands)
  /\ \E cmd \in {LoopCommands[run.i + 1]} :
     \E wres \in IF present THEN {"ok", "Timeout"} ELSE {"ok"} :
     \E reply \in IF present /\ wres = "ok" THEN Replies ELSE {<<>>} :
     \E detach \in IF present /\ wres = "ok"
                   THEN {"never", "beforeRead"} ELSE {"never"} :
     \E k1 \in IF detach # "beforeRead" THEN 0..Len(reply) ELSE {0} :
     \E r \in {send_command(variant, cmd, run.i + 1, inbuf, present,
                            wres, reply, k1, 0, detach)} :
     \E caught \in {r.outcome = "raise" /\ RediscoverCatches(r.exc)} :
       /\ inbuf' = IF r.present THEN r.inbuf \o r.pending ELSE r.inbuf
       /\ present' = r.present
       /\ run' = [run EXCEPT
                    !.i = @ + 1,
                    !.sent = Append(@, cmd),
                    !.raisedAt = IF r.outcome = "raise" THEN @ \cup {cmd}
                                 ELSE @,
                    !.exc = IF r.outcome = "raise" /\ ~caught THEN r.exc
                            ELSE @,
                    !.responses =
                      IF r.outcome = "return"
                      THEN DictSet(@, cmd, ResponseEntry(Codes(r.text)))
                      ELSE IF caught THEN DictSet(@, cmd, ErrorEntry(r.exc))
                      ELSE @,
                    !.pc = IF r.outcome = "raise" /\ ~caught THEN "raised"
                           ELSE IF run.i + 1 = Len(LoopCommands) THEN "return"
                           ELSE "loop"]
  /\ quiet' = TRUE
  /\ UNCHANGED <<pure, variant, kernelActive, claimed, initOk, closed,
                 initDrained, calls, last, prev>>

NextRediscover ==
  \/ RediscoverSend
  \/ DeviceEmit
  \/ Unplug

SpecRediscover == InitRediscover /\ [][NextRediscover]_vars

\* ------------------------------------------------------------------ claims

ReadCount(ops) == Cardinality({i \in 1..Len(ops) : ops[i].op = "read"})

WriteCount(ops) == Cardinality({i \in 1..Len(ops) : ops[i].op = "write"})

\* C1 (as claimed): a send_command issued while the session is Uninitialized
\* or Closed fails with InvalidState and performs no transport write or read.
C1_SendOnlyInReady ==
  (last.op = "send" /\ last.pre \in {"Uninitialized", "Closed"})
    => /\ last.outcome = "raise"
       /\ last.exc.type = "InvalidState"
       /\ last.ops = <<>>

C3_NoStaleBytes ==
  (HasDrain(variant) /\ last.op = "send" /\ last.pre = "Ready"
     /\ last.outcome = "return")
    => \A o \in Owners(last.text) : o = 0 \/ o = last.n

\* C4 (as claimed): a close on an already Closed session does not fail and
\* does not release or dispose the transport again.
C4_SecondCloseIsNoOp ==
  (last.op = "close" /\ last.pre = "Closed")
    => /\ last.outcome = "return"
       /\ last.ops = <<>>
       /\ SessionState = "Closed"

\* C5 (as claimed): a send on a session whose initialize has returned follows
\* an initialize that claimed the interface and then ran one drain.
C5_SendOnlyAfterClaimAndDrain ==
  (last.op = "send" /\ last.pre = "Ready") => initDrained

\* C6 (as claimed): in every exchange that writes, a drain read precedes the
\* write of the command frame.
C6_PreDrainBeforeWrite ==
  (variant = "channel_test" /\ last.op = "send" /\ last.pre = "Ready"
     /\ WriteCount(last.ops) > 0)
    => /\ last.ops[1].op = "read"
       /\ last.ops[1].timeout = DRAIN_TIMEOUT

\* C7: with the continuation enabled, a send that returns has issued exactly
\* one continuation read (256 bytes, 1000 ms) after the primary read when the
\* primary text ends in ',', and returns the primary text followed by the
\* continuation text; otherwise it has issued the primary read only and
\* returns the primary text.  Two reads and one read, whatever the
\* continuation text ends in.
C7_IncompletenessHeuristic ==
  (ContinuationEnabled(variant) /\ last.op = "send" /\ last.outcome = "return")
    => IF EndsWithComma(last.primary)
       THEN /\ ReadCount(last.ops) = 2
            /\ last.ops[Len(last.ops)] =
                 Op("read", CONTINUATION_SIZE, CONTINUATION_TIMEOUT)
            /\ last.ops[Len(last.ops) - 1] =
                 Op("read", ReadSize(variant), TIMEOUT)
            /\ last.contCause # "notreached"
            /\ last.text = last.primary \o last.extra
       ELSE /\ ReadCount(last.ops) = 1
            /\ last.ops[Len(last.ops)] = Op("read", ReadSize(variant), TIMEOUT)
            /\ last.contCause = "notreached"
            /\ last.text = last.primary

\* C7 witness: a continuation read was issued and its own text ends in ','.
C7_Witness ==
  /\ ContinuationEnabled(variant)
  /\ last.op = "send" /\ last.outcome = "return"
  /\ EndsWithComma(last.primary) /\ EndsWithComma(last.extra)
  /\ ReadCount(last.ops) = 2

\* C8: when the continuation read times out the send returns the primary
\* text unchanged and raises nothing.
C8_ContinuationTimeoutIsSwallowed ==
  (last.op = "send" /\ last.contCause = "Timeout")
    => /\ last.outcome = "return"
       /\ last.exc = NoExc
       /\ last.text = last.primary
       /\ EndsWithComma(last.text)

\* C8 witness: a send whose continuation read timed out.
C8_Witness ==
  /\ last.op = "send" /\ last.contCause = "Timeout"
  /\ ReadCount(last.ops) = 2

\* C9 (as claimed): a drain whose read fails with anything but a timeout does
\* not complete normally, nor does the initialize that ran it.
C9_DrainEscalates ==
  (last.op \in {"clear_buffer", "initialize"}
     /\ last.endedOn \notin {"none", "Timeout"})
    => last.outcome = "raise"

\* Two drains in a row, the scanner doing nothing between them.
TwoDrains ==
  /\ prev.op = "clear_buffer"
  /\ last.op = "clear_buffer"
  /\ last.quiet

\* C10 (as claimed): of two drains in a row with no device activity between
\* them, the second consumes no byte and both end on a Timeout.
C10_DrainIdempotent ==
  TwoDrains => /\ last.consumed = 0
               /\ last.endedOn = "Timeout"
               /\ prev.cause = "Timeout"

\* C10 (amended): of two drains in a row with no device activity between
\* them, the second consumes no byte and both end on the same read failure,
\* which is a Timeout unless the scanner is gone.
C10_DrainIdempotentWhileAttached ==
  TwoDrains => /\ last.consumed = 0
               /\ last.endedOn = prev.cause
               /\ last.endedOn \in {"Timeout", "NoDevice"}
               /\ (last.endedOn = "NoDevice" => ~present)

\* C10 witness: the first drain consumed data, the second ran right after it.
C10_Witness ==
  /\ TwoDrains
  /\ prev.consumed > 0
  /\ last.endedOn = "Timeout"

\* The parser has been applied to the response pure.arg.
Parsed == pure.fn = "parse_glg_response" /\ pure.done

\* C11: the reply parser fails soft: for every response string, the empty
\* string, the bare tag and a string with another tag included, it returns
\* (a mapping or the empty result) and never raises to its caller, and the
\* result is empty whenever field 0 is not the tag.
C11_ParserFailsSoft ==
  Parsed =>
    /\ pure.out.outcome = "return"
    /\ pure.out.exc = "none"
    /\ (pure.fields[1] # GLG => pure.out.empty)

\* The bare tag: the IndexError of fields[1] ends as the empty result.
C11_Witness ==
  /\ Parsed
  /\ pure.arg = GLG
  /\ pure.out.outcome = "return"
  /\ pure.out.empty

\* C12: for a tag-matching reply whose frequency field is made of digits only
\* the frequency is the field's integer value divided by 10000 (01705000 gives
\* 170.5); for a frequency field that is empty or holds anything else the
\* frequency is absent and the rest of the mapping is returned all the same.
C12_FrequencyConversion ==
  (Parsed /\ pure.fields[1] = GLG /\ Len(pure.fields) >= 2) =>
    LET raw == pure.fields[2]
        f == pure.out.frequency_mhz
    IN /\ ~pure.out.empty
       /\ pure.out.command = GLG
       /\ pure.out.raw_frequency = raw
       /\ IF Len(raw) > 0 /\ \A i \in 1..Len(raw) : raw[i] \in 48..57
          THEN /\ f.some
               /\ f.val[1] = IntOf(raw)
               /\ f.val[2] = 10000
               /\ (raw = <<48, 49, 55, 48, 53, 48, 48, 48>>
                     => 10 * f.val[1] = 1705 * f.val[2])
          ELSE ~f.some

\* The reply of the manual parses to 170.5 MHz.
C12_Witness ==
  /\ Parsed
  /\ pure.arg = GlgExample
  /\ pure.out.frequency_mhz.some
  /\ 10 * pure.out.frequency_mhz.val[1] = 1705 * pure.out.frequency_mhz.val[2]

C14_MissingFieldsAreAbsent ==
  (Parsed /\ pure.fields[1] = GLG) =>
    /\ ~pure.out.empty
    /\ pure.out.command = GLG
    /\ (Len(pure.fields) < 2 => ~pure.out.frequency_mhz.some)
    /\ (Len(pure.fields) < 3 => ~pure.out.mode.some)

\* send_command has been applied to the command string pure.arg.
Framed == pure.fn = "send_command" /\ pure.done

\* The frames send_command handed to device.write.
WrittenFrames(ops) == {ops[i].frame : i \in {j \in 1..Len(ops) : ops[j].op = "write"}}

\* C15 (as claimed): every frame written to the OUT endpoint is ASCII and is
\* the command string passed to send_command followed by exactly one
\* carriage return as its final byte.
C15_FrameIsCommandThenCR ==
  Framed =>
    \A frame \in WrittenFrames(pure.ops) :
      /\ \A i \in 1..Len(frame) : frame[i] < 128
      /\ frame = pure.arg \o <<CR>>

\* C15 (amended): every frame written to the OUT endpoint is ASCII and is the
\* command text followed by exactly one carriage return as its final byte,
\* where the command text is the string passed to send_command stripped of
\* leading and trailing whitespace (so the text never ends in a carriage
\* return), and in uniden_device.py the string as passed.
C15_FrameIsStrippedCommandThenCR ==
  Framed =>
    \A frame \in WrittenFrames(pure.ops) :
      /\ \A i \in 1..Len(frame) : frame[i] < 128
      /\ Len(frame) >= 1
      /\ frame[Len(frame)] = CR
      /\ SubSeq(frame, 1, Len(frame) - 1)
           = IF variant = "device" THEN pure.arg ELSE Strip(pure.arg)
      /\ (variant # "device" /\ Len(frame) >= 2) => frame[Len(frame) - 1] # CR

\* " M" is written as "M\r".
C15_Witness ==
  /\ Framed
  /\ variant = "channel_test"
  /\ pure.arg = <<32, 77>>
  /\ WrittenFrames(pure.ops) = {<<77, CR>>}

\* C16 (as claimed): decoding never fails: whatever bytes a read returns,
\* bytes outside ASCII included, the call that read them returns a string and
\* does not fail because of the buffer's content.
C16_DecodingNeverFails ==
  (last.op \in {"send", "read_response"} /\ last.readCause = "none")
    => /\ last.outcome = "return"
       /\ last.exc.type # "UnicodeDecodeError"

\* Whitespace and control characters of ASCII.
IsSpaceOrControl(c) == c <= 32 \/ c = 127

\* C17 (as claimed): for every ASCII command text C, decoding the frame of C
\* with its terminator removed yields C trimmed of leading and trailing
\* whitespace and control characters.
C17_RoundTripTrimsControl ==
  (Framed /\ \A i \in 1..Len(pure.arg) : pure.arg[i] < 128) =>
    /\ pure.back.ok
    /\ \E lo \in 1..(Len(pure.arg) + 1) : \E hi \in 0..Len(pure.arg) :
         /\ pure.back.text = SubSeq(pure.arg, lo, hi)
         /\ \A i \in 1..(lo - 1) : IsSpaceOrControl(pure.arg[i])
         /\ \A i \in (hi + 1)..Len(pure.arg) : IsSpaceOrControl(pure.arg[i])
         /\ lo <= hi => /\ ~IsSpaceOrControl(pure.arg[lo])
                        /\ ~IsSpaceOrControl(pure.arg[hi])

\* C17 (amended): for every ASCII command text C, decoding the frame of C with
\* its terminator removed yields C without the leading and trailing characters
\* str.strip() removes: whitespace, which among the control characters is HT,
\* LF, VT, FF, CR, FS, GS, RS and US only; other control characters stay.
C17_RoundTripStrips ==
  (Framed /\ \A i \in 1..Len(pure.arg) : pure.arg[i] < 128) =>
    /\ pure.back.ok
    /\ \E lo \in 1..(Len(pure.arg) + 1) : \E hi \in 0..Len(pure.arg) :
         /\ pure.back.text = SubSeq(pure.arg, lo, hi)
         /\ \A i \in 1..(lo - 1) : IsSpace(pure.arg[i])
         /\ \A i \in (hi + 1)..Len(pure.arg) : IsSpace(pure.arg[i])
         /\ lo <= hi => /\ ~IsSpace(pure.arg[lo])
                        /\ ~IsSpace(pure.arg[hi])

\* " M" comes back as "M" in uniden_device.py, where only the decode strips,
\* and BEL before "M" comes back as it is.
C17_Witness ==
  /\ Framed
  /\ variant = "device"
  /\ pure.arg \in {<<32, 77>>, <<7, 77>>}
  /\ pure.back.ok
  /\ pure.back.text = IF pure.arg[1] = 32 THEN <<77>> ELSE pure.arg

\* C18 (as claimed): a command string that holds a non-ASCII character makes
\* the encode fail with an encoding error before any byte is written: no
\* write and no read is performed for that command.
C18_NonAsciiCommandFailsBeforeWrite ==
  (Framed /\ \E i \in 1..Len(pure.arg) : pure.arg[i] >= 128) =>
    /\ pure.outcome = "raise"
    /\ pure.exc.type = "UnicodeEncodeError"
    /\ pure.ops = <<>>

\* C18 (amended): a command string that still holds a non-ASCII character
\* once send_command has stripped it (in uniden_device.py: that holds one
\* anywhere) makes the encode fail with UnicodeEncodeError before any byte is
\* written, no write and no read being performed; a string whose only
\* non-ASCII characters are leading or trailing Unicode whitespace is
\* stripped to ASCII and its frame is written.
C18_NonAsciiTextFailsBeforeWrite ==
  Framed =>
    LET text == IF variant = "device" THEN pure.arg ELSE Strip(pure.arg)
    IN IF \E i \in 1..Len(text) : text[i] >= 128
       THEN /\ pure.outcome = "raise"
            /\ pure.exc.type = "UnicodeEncodeError"
            /\ pure.ops = <<>>
       ELSE /\ pure.exc.type # "UnicodeEncodeError"
            /\ Len(pure.ops) >= 1
            /\ pure.ops[1].op = "write"

\* A command made of e-acute: nothing reaches the transport.
C18_Witness ==
  /\ Framed
  /\ pure.arg = <<233>>
  /\ pure.exc.type = "UnicodeEncodeError"
  /\ pure.ops = <<>>

\* The longest a call can block: its sleep plus the timeouts of its writes
\* and reads, in ms.
RECURSIVE BlockingTime(_)
BlockingTime(ops) ==
  IF Len(ops) = 0 THEN 0
  ELSE (IF Head(ops).op = "sleep" THEN Head(ops).arg ELSE Head(ops).timeout)
       + BlockingTime(Tail(ops))

\* C19 (as claimed): the settle delay plus the timeouts of all the blocking
\* transport calls of one exchange never exceeds settleDelay + 2 x TIMEOUT.
C19_BlockingWithinTwoTimeouts ==
  last.op = "send" =>
    BlockingTime(last.ops) <= SettleDelay(variant) + 2 * 5000

\* C19 (amended): the settle delay plus the timeouts of all the blocking
\* transport calls of one exchange never exceeds settleDelay + 2 x TIMEOUT
\* plus, in the class that has the continuation read, its 1000 ms: 11300 ms
\* there, and the exchange makes no drain read.
C19_BlockingWithinTwoTimeoutsAndContinuation ==
  last.op = "send" =>
    /\ BlockingTime(last.ops)
         <= SettleDelay(variant) + 2 * 5000
              + (IF variant = "channel_test" THEN 1000 ELSE 0)
    /\ \A i \in 1..Len(last.ops) : last.ops[i].timeout # 500

\* A send of uniden_channel_test.py with write, sleep, primary read and
\* continuation read: 5000 + 300 + 5000 + 1000 ms.
C19_Witness ==
  /\ last.op = "send"
  /\ variant = "channel_test"
  /\ ReadCount(last.ops) = 2
  /\ BlockingTime(last.ops) = 11300

C21_DrainTerminates ==
  /\ [](run.fn = "clear_buffer" =>
          /\ \A o \in run.issued : o.op = "read"
          /\ run.returned = <<>>
          /\ run.pc = "done" => run.outcome = "return")
  /\ (run.fn = "clear_buffer" /\ run.stopped) ~> (run.pc = "done")

\* clear_buffer has returned after reading bytes the scanner went on emitting
\* until it stopped.
C21_Witness ==
  /\ run.fn = "clear_buffer"
  /\ run.pc = "done"
  /\ run.stopped
  /\ present
  /\ run.endedOn = "Timeout"
  /\ <<0, 200>> \in run.taken

C23_RediscoverIsolatesFailures ==
  run.fn = "rediscover_commands" =>
    /\ run.pc # "raised"
    /\ run.sent = SubSeq(LoopCommands, 1, run.i)
    /\ DOMAIN run.responses = {run.sent[k] : k \in 1..Len(run.sent)}
    /\ \A c \in DOMAIN run.responses :
         /\ run.responses[c].kind \in {"text", "USB Error"}
         /\ run.responses[c].kind = "USB Error" <=> c \in run.raisedAt
    /\ run.pc = "return" =>
         /\ run.sent = LoopCommands
         /\ Cardinality(DOMAIN run.responses) = Len(LoopCommands)
    /\ run.pc = "loop" => run.i < Len(LoopCommands)

\* The first command failed with a USB error and the loop went on: the
\* second has its response text, and every command has its entry.
C23_Witness ==
  /\ run.fn = "rediscover_commands"
  /\ run.pc = "return"
  /\ run.responses[LoopCommands[1]].kind = "USB Error"
  /\ run.responses[LoopCommands[2]].kind = "text"
  /\ run.responses[LoopCommands[2]].text # <<>>
  /\ Cardinality(DOMAIN run.responses) = Len(LoopCommands)

====
